---- MODULE Spec2Model ----
(***************************************************************************)
(* Model of src/Museum_Main.py: four sensor polling loops (sound, IR,      *)
(* smoke, DHT11) that put events on one queue.Queue, a dispatcher thread   *)
(* that gets each event and runs handle_event on it, and the main thread   *)
(* that starts them and waits for KeyboardInterrupt.                       *)
(*                                                                         *)
(* Threads interleave at the granularity of one loop iteration for the     *)
(* producers and of one blocking call for the dispatcher.  Time is not     *)
(* modelled except for the sound loop's sleep(2), which is counted in      *)
(* cycles of one audio block each.                                         *)
(***************************************************************************)
EXTENDS Integers, Sequences, FiniteSets, TLC

(***************************************************************************)
(* Bounds of the model.                                                    *)
(***************************************************************************)
\* Total number of event_queue.put calls explored.
MaxPushes == 3
\* Longest audio sample block explored (the code records 3200 frames).
MaxBlockLen == 2

(***************************************************************************)
(* Configuration (lines 32-38) and values derived from it.                 *)
(***************************************************************************)
AUDIO_BLOCK_MS == 200
SOUND_DB_THRESHOLD == 70
CAMERA_ENABLED == TRUE
TEMP_THRESHOLD == 60
\* rms_db's value for a block without signal (line 104).
DbFloor == -100
\* The calibration offset sample_audio_block adds (line 114).
CalibrationOffset == 90
\* What sample_audio_block returns when recording raises (line 117).
AudioErrorDb == 0
\* loop_sound's time.sleep(2) after an event (line 156), in milliseconds.
SoundSleepMs == 2000
\* The sleep counted in audio blocks: the cycles the code's cooldown covers.
SoundCooldownCycles == SoundSleepMs \div AUDIO_BLOCK_MS
\* queue.Queue() is built with the default maxsize 0 (line 120).
QueueMaxsize == 0

(***************************************************************************)
(* Audio level: rms_db and sample_audio_block.  Samples are float32 in     *)
(* [-1, 1]; the model writes them in units of 1/10000, so a mean square is *)
(* in units of 1e-8 and 10*log10 of it is 80 dB above the code's value.    *)
(* Decibels are rounded down to whole numbers.                             *)
(***************************************************************************)
RECURSIVE Decade(_)
\* floor(log10(x)) for x >= 1.
Decade(x) == IF x < 10 THEN 0 ELSE 1 + Decade(x \div 10)

AmplitudeUnit == 10000
AmplitudeScaleDb == 20 * Decade(AmplitudeUnit)

Amplitudes == {0, 32, 100, 1000, 1779, 1996, 3163}

RECURSIVE SeqsUpTo(_, _)
SeqsUpTo(S, n) ==
    IF n = 0 THEN {<< >>}
    ELSE LET shorter == SeqsUpTo(S, n - 1)
         IN  shorter \cup {Append(s, x) : s \in {t \in shorter : Len(t) = n - 1}, x \in S}

Blocks == SeqsUpTo(Amplitudes, MaxBlockLen) \ {<< >>}

RECURSIVE SumSquares(_)
SumSquares(samples) ==
    IF samples = << >> THEN 0
    ELSE Head(samples) * Head(samples) + SumSquares(Tail(samples))

\* np.mean(np.square(samples)): the square of the rms.
MeanSquare(samples) == SumSquares(samples) \div Len(samples)

RECURSIVE Pow10(_)
Pow10(n) == IF n = 0 THEN 1 ELSE 10 * Pow10(n - 1)

\* 1000 * 10^(j/10) for j = 0..9, rounded up: the mantissa at which the
\* tenths digit of log10 becomes j.
TenthsTable == <<1000, 1259, 1585, 1996, 2512, 3163, 3982, 5012, 6310, 7944>>

\* floor(10 * log10(x)) for x >= 1.
TenLog10(x) ==
    LET d    == Decade(x)
        mant == IF d >= 3 THEN x \div Pow10(d - 3) ELSE x * Pow10(3 - d)
    IN  10 * d + Cardinality({j \in 1..10 : TenthsTable[j] <= mant}) - 1

\* Mutant of rms_db: the floor test is dropped and silence is given the
\* value of the weakest signal.
rms_db_nofloor(samples) ==
    IF MeanSquare(samples) <= 0 THEN 0
    ELSE TenLog10(MeanSquare(samples)) - AmplitudeScaleDb

\* rms <= 0 exactly when its square is; 20*log10(rms) = 10*log10(rms^2).
rms_db(samples) ==
    IF MeanSquare(samples) <= 0 THEN DbFloor
    ELSE TenLog10(MeanSquare(samples)) - AmplitudeScaleDb

\* What sd.rec/sd.wait deliver: a block of samples, or an exception.
AudioInputs ==
    {[ok |-> TRUE, samples |-> s] : s \in Blocks} \cup {[ok |-> FALSE, samples |-> << >>]}

\* Mutant of sample_audio_block: a failed acquisition is reported as a loud
\* block.
sample_audio_block_loud(rec) ==
    IF rec.ok THEN rms_db(rec.samples) + CalibrationOffset ELSE SOUND_DB_THRESHOLD

sample_audio_block(rec) ==
    IF rec.ok THEN rms_db(rec.samples) + CalibrationOffset ELSE AudioErrorDb

\* sample_audio_block on each input, computed once.
AudioLevel == [rec \in AudioInputs |-> sample_audio_block(rec)]

(***************************************************************************)
(* State.                                                                  *)
(***************************************************************************)
VARIABLES
    queue,          \* event_queue: the events put and not yet got, oldest first
    putCount,       \* number of event_queue.put calls so far
    pushedOf,       \* the same per event type
    popCount,       \* number of event_queue.get calls that returned
    cooldownCycles, \* cycles loop_sound's sleep after an event covers
    cool,           \* loop_sound: cycles of that sleep still to pass, 0 = polling
    exIdx,          \* cycles so far, while their levels follow SoundExample; else -1
    exFired,        \* the cycles among them at which loop_sound put a noise event
    heard,          \* loop_sound's last poll: its input's kind, the level, the outcome
    last,           \* loop_ir's local variable last
    smokeRun,       \* consecutive active smoke polls just made, counted to 2; else -1
    dhtPc,          \* loop_dht: "run", or "dead" after an uncaught exception
    clIdx,          \* valid climate reads so far, while they follow ClimateExample; else -1
    clSamples,      \* climate samples published during them
    clHigh,         \* high_temp events put during them
    dispPc,         \* dispatcher: where it stands in get / handle_event
    ev,             \* the event the dispatcher is handling
    telemetry,      \* handle_event's local dict telemetry
    captureFailed,  \* capture_image raised for the event being handled
    evSent,         \* publish_telemetry calls handle_event made for that event
    sinkFailed,     \* the publish inside that publish_telemetry call raised
    handleCalls,    \* handle_event calls made so far
    handleDone,     \* handle_event calls that have returned
    published,      \* the record a sensor loop last handed to publish_telemetry
    leds,           \* led_green, led_yellow, led_red values
    buzzerOn,       \* buzzer state
    mainPc          \* main thread: "starting", "running", "stopped"

vars == <<queue, putCount, pushedOf, popCount, cooldownCycles, cool, exIdx, exFired,
          heard, last, smokeRun, dhtPc, clIdx, clSamples, clHigh, dispPc, ev, telemetry,
          captureFailed, evSent, sinkFailed, handleCalls, handleDone, published, leds,
          buzzerOn, mainPc>>

soundVars == <<cool, exIdx, exFired, heard>>
dhtVars   == <<dhtPc, clIdx, clSamples, clHigh>>
dispVars  == <<popCount, dispPc, ev, telemetry, captureFailed, evSent, sinkFailed,
               handleCalls, handleDone>>
actVars   == <<leds, buzzerOn>>

EventTypes == {"noise", "motion", "smoke", "high_temp"}

NoEvent == [type |-> "none"]
NoRecord == [none |-> TRUE]
\* Value of published, and of the counters of the sensor loops, in a
\* specification that does not observe them.
Unobserved == [unobserved |-> TRUE]

\* publish_telemetry(data) called by a sensor loop (lines 70-75).
SensorPublish(data) ==
    published' = IF published = Unobserved THEN Unobserved ELSE data

\* dict.get(key, default)
DictGet(d, key, default) == IF key \in DOMAIN d THEN d[key] ELSE default

\* The series of the noise example and of the climate example.
SoundExample == <<50, 75, 80, 40, 76>>
ClimateExample == <<55, 65, 58>>

(***************************************************************************)
(* led_set and the queue.                                                  *)
(***************************************************************************)
led_set(green, yellow, red) ==
    [green |-> IF green THEN 1 ELSE 0,
     yellow |-> IF yellow THEN 1 ELSE 0,
     red |-> IF red THEN 1 ELSE 0]

\* Queue.put blocks only while maxsize > 0 and the queue holds maxsize items.
PutEnabled == QueueMaxsize <= 0 \/ Len(queue) < QueueMaxsize

\* Queue._put: deque.append.
QueuePut(q, e) == Append(q, e)

\* Mutant of QueueGet: the oldest event is returned and stays in the queue.
QueuePeek(q) == [item |-> Head(q), rest |-> q]

\* Mutant of QueueGet: the newest event is taken (a LifoQueue).
QueueGetNewest(q) == [item |-> q[Len(q)], rest |-> SubSeq(q, 1, Len(q) - 1)]

\* Queue._get: deque.popleft.
QueueGet(q) == [item |-> Head(q), rest |-> Tail(q)]

\* event_queue.put(e) by the loop of event type e.type.  The fields k (arrival
\* number at the queue) and n (number among its producer's events) are not in
\* the code's dict: they give each put event its identity.
Put(e) ==
    /\ putCount < MaxPushes
    /\ PutEnabled
    /\ queue' = QueuePut(queue, e @@ [k |-> putCount + 1, n |-> pushedOf[e.type] + 1])
    /\ putCount' = putCount + 1
    /\ pushedOf' = [pushedOf EXCEPT ![e.type] = @ + 1]

NoPut == UNCHANGED <<queue, putCount, pushedOf>>

Alive == mainPc # "stopped"

(***************************************************************************)
(* loop_sound (lines 148-156).                                             *)
(***************************************************************************)
\* Line 151.
SoundFires(db) == db >= SOUND_DB_THRESHOLD

\* Mutant of SoundSleepCycles: the sleep after an event is left out.
SoundSleepNone(fired) == 0

\* Line 156: the sleep is inside the if, so only an iteration that put an
\* event sleeps.
SoundSleepCycles(fired) == IF fired THEN cooldownCycles ELSE 0

\* Mutant of NoiseEvent: the capture flag does not follow the IR reading.
NoiseEventAlwaysCapture(db, ir) == [type |-> "noise", db |-> db, capture |-> TRUE]

\* Lines 152-155.
NoiseEvent(db, ir) ==
    IF ir = 1 THEN [type |-> "noise", db |-> db, capture |-> TRUE]
    ELSE [type |-> "noise", db |-> db, capture |-> FALSE]

\* One more cycle has passed with sound level `level`; `fired` says whether
\* loop_sound put a noise event in it.  Follows the cycles only as long as
\* their levels are those of SoundExample.
SoundCycle(level, fired) ==
    IF exIdx = Len(SoundExample) THEN UNCHANGED <<exIdx, exFired>>
    ELSE IF exIdx >= 0 /\ SoundExample[exIdx + 1] = level
         THEN /\ exIdx' = exIdx + 1
              /\ exFired' = IF fired THEN exFired \cup {exIdx} ELSE exFired
         ELSE /\ exIdx' = -1
              /\ exFired' = {}

\* Whether every sample of the block is zero: the rms of a block is <= 0
\* exactly then.
AllZero(samples) == \A i \in 1..Len(samples) : samples[i] = 0

\* loop_sound polled: the device delivered rec, sample_audio_block returned
\* db, ir_sensor read ir, and `fired` says whether the iteration put a noise
\* event.
SoundPolled(rec, ir, db, fired) ==
    /\ SoundCycle(db, fired)
    /\ heard' = IF heard = Unobserved THEN Unobserved
                ELSE [ok |-> rec.ok, silent |-> rec.ok /\ AllZero(rec.samples),
                      ir |-> ir, db |-> db, fired |-> fired]

\* One iteration that samples: rec is what the audio device delivers, ir the
\* value of ir_sensor at line 152.
loop_sound(rec, ir) ==
    /\ Alive
    /\ cool = 0
    /\ LET db == AudioLevel[rec]
       IN  /\ IF SoundFires(db)
              THEN Put(NoiseEvent(db, ir)) /\ SoundPolled(rec, ir, db, TRUE)
              ELSE NoPut /\ SoundPolled(rec, ir, db, FALSE)
           /\ cool' = SoundSleepCycles(SoundFires(db))
    /\ UNCHANGED <<cooldownCycles, last, smokeRun, dhtVars, dispVars, published,
                   actVars, mainPc>>

\* One cycle of the sleep of line 156 passes; rec is the sound of that cycle,
\* which nothing samples.
loop_sound_sleep(rec) ==
    /\ Alive
    /\ cool > 0
    /\ cool' = cool - 1
    /\ SoundCycle(AudioLevel[rec], FALSE)
    /\ NoPut
    /\ UNCHANGED heard
    /\ UNCHANGED <<cooldownCycles, last, smokeRun, dhtVars, dispVars, published,
                   actVars, mainPc>>

(***************************************************************************)
(* loop_ir (lines 158-165).                                                *)
(***************************************************************************)
\* Mutant of IrFires: the edge test is dropped.
IrFiresLevel(state, prev) == state = 1

\* Line 162: state and not last.
IrFires(state, prev) == state = 1 /\ prev = 0

loop_ir(state) ==
    /\ Alive
    /\ IF IrFires(state, last) THEN Put([type |-> "motion", capture |-> TRUE]) ELSE NoPut
    /\ last' = state
    /\ UNCHANGED <<cooldownCycles, soundVars, smokeRun, dhtVars, dispVars, published,
                   actVars, mainPc>>

(***************************************************************************)
(* loop_smoke (lines 167-173).                                             *)
(***************************************************************************)
\* Mutant of SmokeFires: only the first of consecutive active polls fires.
SmokeFiresEdge(state) == state = 1 /\ smokeRun = 0

\* Line 171.
SmokeFires(state) == state = 1

loop_smoke(state) ==
    /\ Alive
    /\ SensorPublish([smoke |-> state])
    /\ IF SmokeFires(state) THEN Put([type |-> "smoke", capture |-> FALSE]) ELSE NoPut
    /\ smokeRun' = IF smokeRun = -1 THEN -1
                   ELSE IF state = 0 THEN 0
                   ELSE IF smokeRun < 2 THEN smokeRun + 1 ELSE 2
    /\ UNCHANGED <<cooldownCycles, soundVars, last, dhtVars, dispVars, actVars, mainPc>>

(***************************************************************************)
(* loop_dht (lines 175-186).                                               *)
(***************************************************************************)
\* Python's None, and a value that is not None.
None == << >>
Some(x) == <<x>>

Temps == {55, 58, 60, 65}
Hums == {40}

\* What reading dht_device.temperature and .humidity gives: two values, each
\* possibly None, or RuntimeError, or an exception of another class.
DhtReads ==
    {[kind |-> "values", t |-> t, h |-> h] :
        t \in {Some(x) : x \in Temps} \cup {None},
        h \in {Some(x) : x \in Hums} \cup {None}}
    \cup {[kind |-> "RuntimeError"], [kind |-> "OtherError"]}

\* Line 180.
DhtValid(r) == r.kind = "values" /\ r.t # None /\ r.h # None

\* Mutant of TempHigh: the comparison is not strict.
TempHighOrEqual(t) == t >= TEMP_THRESHOLD

\* Line 182.
TempHigh(t) == t > TEMP_THRESHOLD

\* One more valid climate read of temperature t was made; `high` says whether
\* loop_dht put a high_temp event for it.  Follows the reads only as long as
\* they are those of ClimateExample.
ClimateCycle(t, high) ==
    IF clIdx = Len(ClimateExample) THEN UNCHANGED <<clIdx, clSamples, clHigh>>
    ELSE IF clIdx >= 0 /\ ClimateExample[clIdx + 1] = t
         THEN /\ clIdx' = clIdx + 1
              /\ clSamples' = clSamples + 1
              /\ clHigh' = IF high THEN clHigh + 1 ELSE clHigh
         ELSE /\ clIdx' = -1
              /\ clSamples' = 0
              /\ clHigh' = 0

loop_dht(r) ==
    /\ Alive
    /\ dhtPc = "run"
    /\ IF DhtValid(r)
       THEN /\ SensorPublish([temperature_c |-> r.t[1], humidity |-> r.h[1]])
            /\ IF TempHigh(r.t[1])
               THEN Put([type |-> "high_temp", temp |-> r.t[1]])
               ELSE NoPut
            /\ ClimateCycle(r.t[1], TempHigh(r.t[1]))
            /\ dhtPc' = "run"
       ELSE /\ NoPut
            /\ UNCHANGED <<published, clIdx, clSamples, clHigh>>
            /\ dhtPc' = IF r.kind = "OtherError" THEN "dead" ELSE "run"
    /\ UNCHANGED <<cooldownCycles, soundVars, last, smokeRun, dispVars, actVars, mainPc>>

(***************************************************************************)
(* dispatcher (lines 188-192) and handle_event (lines 128-145).            *)
(* dispPc: "idle" blocked in event_queue.get, "feedback" at line 129,      *)
(* "beep" inside beep's sleep with the buzzer on, "enrich" at line 133,    *)
(* "publish" at line 143, "baseline" in the sleep of line 144, "dead"      *)
(* after an exception left handle_event and ended the thread.              *)
(***************************************************************************)
\* How capture_image (and the encoding of lines 140-141) can end.
CaptureOutcomes ==
    {"camera_error",   \* camera.capture raises (line 91)
     "unreadable",     \* cv2.imread returns None, cv2.cvtColor raises (line 94)
     "detect_error",   \* detectMultiScale raises (line 95)
     "no_face",        \* returns (filename, False)
     "face",           \* returns (filename, True) and the file is encoded
     "encode_error"}   \* returns (filename, True), open/read raises (line 140)

CaptureRaises(outcome) == outcome \in {"camera_error", "unreadable", "detect_error"}

\* Line 135.
WantsCapture(e) == CAMERA_ENABLED /\ DictGet(e, "capture", FALSE)

\* Mutant of HandleEntry: an event that asks for a capture goes to the
\* capture first.
HandleEntryCaptureFirst(e) == IF WantsCapture(e) THEN "enrich" ELSE "feedback"

\* Line 191 into lines 129-131: the first statements of handle_event are
\* led_set(yellow=True) and beep, for every event.
HandleEntry(e) == "feedback"

\* Mutant of AtGet: the next event is got while handle_event is still in its
\* last sleep for the previous one.
AtGetEarly == dispPc \in {"idle", "baseline"}

\* Lines 189-192: the one dispatcher thread (line 200) calls get again only
\* after handle_event and task_done have returned.
AtGet == dispPc = "idle"

\* Line 190.
dispatcher_get ==
    /\ Alive
    /\ AtGet
    /\ queue # << >>
    /\ ev' = QueueGet(queue).item
    /\ queue' = QueueGet(queue).rest
    /\ popCount' = popCount + 1
    /\ dispPc' = HandleEntry(QueueGet(queue).item)
    /\ captureFailed' = FALSE
    /\ evSent' = 0
    /\ sinkFailed' = FALSE
    /\ UNCHANGED <<putCount, pushedOf, cooldownCycles, soundVars, last, smokeRun, dhtVars,
                   telemetry, handleCalls, handleDone, published, actVars, mainPc>>

\* Lines 129-131 up to buzzer.on().
handle_feedback ==
    /\ Alive
    /\ dispPc = "feedback"
    /\ leds' = led_set(FALSE, TRUE, FALSE)
    /\ buzzerOn' = TRUE
    /\ dispPc' = "beep"
    /\ handleCalls' = handleCalls + 1
    /\ UNCHANGED <<queue, putCount, pushedOf, popCount, cooldownCycles, soundVars, last,
                   smokeRun, dhtVars, ev, telemetry, captureFailed, evSent, sinkFailed,
                   handleDone, published, mainPc>>

\* beep's buzzer.off() and line 133 (the timestamp is left out).
handle_beep_off ==
    /\ Alive
    /\ dispPc = "beep"
    /\ buzzerOn' = FALSE
    /\ telemetry' = [event |-> ev]
    /\ dispPc' = IF WantsCapture(ev) THEN "enrich" ELSE "publish"
    /\ UNCHANGED <<queue, putCount, pushedOf, popCount, cooldownCycles, soundVars, last,
                   smokeRun, dhtVars, ev, captureFailed, evSent, sinkFailed, handleCalls,
                   handleDone, published, leds, mainPc>>

\* Mutant of CaptureFields: the encoded image is attached whether or not a
\* face was found.
CaptureFieldsAlwaysImage(e, outcome) ==
    [image_saved |-> e.type, image_has_face |-> outcome # "no_face", image_b64 |-> TRUE]

\* Lines 137-141: what handle_event adds to telemetry once capture_image has
\* returned (the file name and the encoded bytes are left out).
CaptureFields(e, outcome) ==
    IF outcome = "no_face" THEN [image_saved |-> e.type, image_has_face |-> FALSE]
    ELSE IF outcome = "face"
         THEN [image_saved |-> e.type, image_has_face |-> TRUE, image_b64 |-> TRUE]
    ELSE [image_saved |-> e.type, image_has_face |-> TRUE]

\* Lines 136-141.  Nothing in handle_event or dispatcher catches what
\* capture_image or open raises: the exception ends the dispatcher thread.
handle_capture(outcome) ==
    /\ Alive
    /\ dispPc = "enrich"
    /\ captureFailed' = CaptureRaises(outcome)
    /\ telemetry' =
         IF CaptureRaises(outcome) THEN telemetry
         ELSE telemetry @@ CaptureFields(ev, outcome)
    /\ dispPc' = IF outcome \in {"no_face", "face"} THEN "publish" ELSE "dead"
    /\ UNCHANGED <<queue, putCount, pushedOf, popCount, cooldownCycles, soundVars, last,
                   smokeRun, dhtVars, ev, evSent, sinkFailed, handleCalls, handleDone,
                   published, actVars, mainPc>>

\* Mutant of PublishReturns: what the publish raises leaves publish_telemetry
\* and handle_event.
PublishRaises(ok) == IF ok THEN "baseline" ELSE "dead"

\* Lines 70-75: publish_telemetry catches what json.dumps or client.publish
\* raises and prints it, so the call returns to line 144 whether the sink
\* took the record (ok) or not.
PublishReturns(ok) == "baseline"

\* Line 143.  The record handed over is telemetry.
handle_publish(ok) ==
    /\ Alive
    /\ dispPc = "publish"
    /\ evSent' = evSent + 1
    /\ sinkFailed' = ~ok
    /\ dispPc' = PublishReturns(ok)
    /\ UNCHANGED <<queue, putCount, pushedOf, popCount, cooldownCycles, soundVars, last,
                   smokeRun, dhtVars, ev, telemetry, captureFailed, handleCalls, handleDone,
                   published, actVars, mainPc>>

\* Mutant of BaselineLeds: the yellow LED is left on.
BaselineLedsYellowOn == led_set(TRUE, TRUE, FALSE)

\* Line 145: led_set(green=True).
BaselineLeds == led_set(TRUE, FALSE, FALSE)

\* Lines 144-145 and task_done (line 192); the locals go out of scope.
handle_baseline ==
    /\ Alive
    /\ dispPc = "baseline"
    /\ leds' = BaselineLeds
    /\ dispPc' = "idle"
    /\ ev' = NoEvent
    /\ telemetry' = NoRecord
    /\ captureFailed' = FALSE
    /\ evSent' = 0
    /\ sinkFailed' = FALSE
    /\ handleDone' = handleDone + 1
    /\ UNCHANGED <<queue, putCount, pushedOf, popCount, cooldownCycles, soundVars, last,
                   smokeRun, dhtVars, handleCalls, published, buzzerOn, mainPc>>

(***************************************************************************)
(* Main thread (lines 195-212).                                            *)
(***************************************************************************)
\* Line 205, after the threads were started at line 203.
main_led_set ==
    /\ mainPc = "starting"
    /\ leds' = led_set(TRUE, FALSE, FALSE)
    /\ mainPc' = "running"
    /\ UNCHANGED <<queue, putCount, pushedOf, cooldownCycles, soundVars, last, smokeRun,
                   dhtVars, dispVars, published, buzzerOn>>

\* Lines 210-212: KeyboardInterrupt in the wait loop.  client.loop_stop() and
\* a print, then the main thread ends and with it the process: the daemon
\* threads stop wherever they are.  No line touches the LEDs or the buzzer.
keyboard_interrupt ==
    /\ mainPc = "running"
    /\ mainPc' = "stopped"
    /\ UNCHANGED <<queue, putCount, pushedOf, cooldownCycles, soundVars, last, smokeRun,
                   dhtVars, dispVars, published, actVars>>

(***************************************************************************)
(* Specifications.  Spec is the whole program.  SpecSound and SpecSensors  *)
(* run the sound loop, and the three other sensor loops, on their own,     *)
(* over larger sets of readings and with the counters that follow their    *)
(* polls switched on.  SpecNoise runs the sound loop on the audio of Spec  *)
(* with both readings of the IR sensor.                                    *)
(***************************************************************************)
\* 2 is the cooldown of the noise example, the other the code's own.
CooldownChoices == {2, SoundCooldownCycles}

\* The state after line 203 started the threads.
InitProgram ==
    /\ queue = << >>
    /\ putCount = 0
    /\ pushedOf = [t \in EventTypes |-> 0]
    /\ popCount = 0
    /\ cool = 0
    /\ last = 0
    /\ dhtPc = "run"
    /\ dispPc = "idle"
    /\ ev = NoEvent
    /\ telemetry = NoRecord
    /\ captureFailed = FALSE
    /\ evSent = 0
    /\ sinkFailed = FALSE
    /\ handleCalls = 0
    /\ handleDone = 0
    /\ leds = led_set(FALSE, FALSE, FALSE)
    /\ buzzerOn = FALSE
    /\ mainPc = "starting"

SoundUnobserved == exIdx = -1 /\ exFired = {} /\ heard = Unobserved
SensorsUnobserved ==
    smokeRun = -1 /\ clIdx = -1 /\ clSamples = 0 /\ clHigh = 0 /\ published = Unobserved

Init ==
    /\ InitProgram
    /\ cooldownCycles = SoundCooldownCycles
    /\ SoundUnobserved
    /\ SensorsUnobserved

InitSound ==
    /\ InitProgram
    /\ cooldownCycles \in CooldownChoices
    /\ exIdx = 0
    /\ exFired = {}
    /\ heard = NoRecord
    /\ SensorsUnobserved

InitSensors ==
    /\ InitProgram
    /\ cooldownCycles = SoundCooldownCycles
    /\ SoundUnobserved
    /\ smokeRun = 0
    /\ clIdx = 0
    /\ clSamples = 0
    /\ clHigh = 0
    /\ published = NoRecord

\* The audio the whole program is run on: silence, a loud block, and a
\* failing device.
ProgramAudio ==
    {rec \in AudioInputs : rec.samples \in {<<0>>, <<3163>>, << >>}}

SoundStep == \E rec \in ProgramAudio, ir \in {0, 1} : loop_sound(rec, ir)
SoundSleepStep == \E rec \in ProgramAudio : loop_sound_sleep(rec)
IrStep == \E state \in {0, 1} : loop_ir(state)
SmokeStep == \E state \in {0, 1} : loop_smoke(state)
DhtStep == \E r \in DhtReads : loop_dht(r)
CaptureStep == \E outcome \in CaptureOutcomes : handle_capture(outcome)
PublishStep == \E ok \in BOOLEAN : handle_publish(ok)

Next ==
    \/ SoundStep
    \/ SoundSleepStep
    \/ IrStep
    \/ SmokeStep
    \/ DhtStep
    \/ dispatcher_get
    \/ handle_feedback
    \/ handle_beep_off
    \/ CaptureStep
    \/ PublishStep
    \/ handle_baseline
    \/ main_led_set
    \/ keyboard_interrupt

Spec == Init /\ [][Next]_vars

\* What loop_sound reads of its input.
AudioClass(rec) == <<AudioLevel[rec], rec.ok, rec.ok /\ AllZero(rec.samples)>>

\* One input of each class: the sound loop reads its input through
\* AudioClass alone, so these inputs give every successor the inputs of
\* AudioInputs give.
ClassInputs ==
    {CHOOSE rec \in AudioInputs : AudioClass(rec) = c : c \in {AudioClass(r) : r \in AudioInputs}}

\* The sound loop on its own polls with nothing in front of the IR sensor.
SoundPoll == \E rec \in ClassInputs : loop_sound(rec, 0)
SoundSleep == \E rec \in ClassInputs : loop_sound_sleep(rec)

NextSound ==
    \/ SoundPoll
    \/ SoundSleep

SpecSound == InitSound /\ [][NextSound]_vars

\* The sound loop on its own with the IR sensor reading either value at each
\* poll.
NextNoise ==
    \/ SoundStep
    \/ SoundSleepStep

SpecNoise == InitSound /\ [][NextNoise]_vars

NextSensors ==
    \/ IrStep
    \/ SmokeStep
    \/ DhtStep

SpecSensors == InitSensors /\ [][NextSensors]_vars

(***************************************************************************)
(* Properties.                                                             *)
(***************************************************************************)
IsPoll(h) == h # NoRecord /\ h # Unobserved

\* The queue after one more event of the given type was appended to q.
Appended(q, q2, type) ==
    /\ Len(q2) = Len(q) + 1
    /\ SubSeq(q2, 1, Len(q)) = q
    /\ q2[Len(q2)].type = type

\* C1: an iteration of loop_ir puts exactly one motion event (with capture
\* true) when the previous polled reading was 0 and the current one is 1, and
\* puts nothing when the reading is unchanged or falls.
C1_MotionOnRisingEdgeOnly ==
    [][\A state \in {0, 1} :
         loop_ir(state) =>
           IF last = 0 /\ state = 1
           THEN /\ Appended(queue, queue', "motion")
                /\ queue'[Len(queue')].capture = TRUE
                /\ pushedOf'["motion"] = pushedOf["motion"] + 1
           ELSE queue' = queue /\ pushedOf' = pushedOf]_vars

\* Two rising edges, each followed by a fall, gave two motion events.
C1_Witness == pushedOf["motion"] = 2 /\ last = 0 /\ Len(queue) = 2

\* C2: an iteration of loop_smoke puts one smoke event whenever the reading
\* is active, whatever the readings before it, and nothing when it is
\* inactive; consecutive active polls each gave an event.
C2_SmokeLevelTriggered ==
    /\ [][\A state \in {0, 1} :
            loop_smoke(state) =>
              IF state = 1
              THEN /\ Appended(queue, queue', "smoke")
                   /\ pushedOf'["smoke"] = pushedOf["smoke"] + 1
              ELSE queue' = queue /\ pushedOf' = pushedOf]_vars
    /\ [](smokeRun >= 0 => pushedOf["smoke"] >= smokeRun)

\* Two consecutive active polls, two smoke events.
C2_Witness == smokeRun = 2 /\ pushedOf["smoke"] = 2

\* C3: a poll of loop_sound puts a noise event exactly when the level is at
\* least the threshold; while the sleep that follows an event lasts nothing
\* is put; every put starts that sleep; and with a sleep of 2 cycles the
\* levels 50, 75, 80, 40, 76 give events at cycles 1 and 4 only.
C3_NoiseCooldown ==
    /\ [](IsPoll(heard) => (heard.fired <=> heard.db >= SOUND_DB_THRESHOLD))
    /\ [][cool > 0 => queue' = queue /\ putCount' = putCount]_vars
    /\ [][putCount' # putCount => cool = 0 /\ cool' = cooldownCycles]_vars
    /\ [](cooldownCycles = 2 /\ exIdx = Len(SoundExample) => exFired = {1, 4})

\* The five cycles of the example have passed, with events at cycles 1 and 4.
C3_Witness ==
    cooldownCycles = 2 /\ exIdx = Len(SoundExample) /\ exFired = {1, 4} /\ putCount = 2

\* C4: an iteration of loop_dht with a valid reading publishes the climate
\* sample, and puts a high_temp event exactly when the temperature is above
\* the threshold; the readings 55, 65, 58 give three samples and one
\* high_temp event, put at the second reading.
C4_ClimateSampleAndHighTemp ==
    /\ [][\A r \in DhtReads :
            (loop_dht(r) /\ r.kind = "values" /\ r.t # None /\ r.h # None) =>
              /\ published' = [temperature_c |-> r.t[1], humidity |-> r.h[1]]
              /\ IF r.t[1] > TEMP_THRESHOLD
                 THEN /\ Appended(queue, queue', "high_temp")
                      /\ queue'[Len(queue')].temp = r.t[1]
                 ELSE queue' = queue /\ pushedOf' = pushedOf]_vars
    /\ [](clIdx >= 0 => clSamples = clIdx)
    /\ [](clIdx = 1 => clHigh = 0)
    /\ [](clIdx >= 2 => clHigh = 1)

\* The three readings of the example were made.
C4_Witness ==
    clIdx = Len(ClimateExample) /\ clSamples = 3 /\ clHigh = 1 /\ pushedOf["high_temp"] = 1

\* C5: the events in the queue are those put and not yet got, in the order
\* of their arrival, and the dispatcher is handling the one that arrived
\* last among those got: events are got in arrival order, so the events of
\* one producer are got in the order it put them.
C5_QueueFifo ==
    /\ Len(queue) = putCount - popCount
    /\ \A i \in 1..Len(queue) : queue[i].k = popCount + i
    /\ ev # NoEvent => ev.k = popCount
    /\ \A i \in 1..Len(queue) : \A j \in 1..Len(queue) :
         (i < j /\ queue[i].type = queue[j].type) => queue[i].n < queue[j].n
    /\ \A i \in 1..Len(queue) :
         (ev # NoEvent /\ queue[i].type = ev.type) => ev.n < queue[i].n

\* A smoke event was got, then the first of two motion events; the second
\* motion event is still queued.
C5_Witness ==
    /\ popCount = 2
    /\ ev # NoEvent /\ ev.type = "motion" /\ ev.n = 1
    /\ Len(queue) = 1 /\ queue[1].type = "motion" /\ queue[1].n = 2
    /\ pushedOf["smoke"] = 1

\* C6: when handle_event is over for an event whose capture or face
\* detection failed, one telemetry record was handed to the publisher for
\* it, without image_saved and image_has_face.
C6_CaptureFailureStillPublishes ==
    (captureFailed /\ dispPc \in {"baseline", "dead"}) =>
        /\ evSent = 1
        /\ "image_saved" \notin DOMAIN telemetry
        /\ "image_has_face" \notin DOMAIN telemetry

\* C7: no error raised while an event is handled ends the dispatcher.
C7_DispatcherNeverStops == dispPc # "dead"

\* C8: the queue never holds more events than its configured capacity.
C8_QueueBounded == Len(queue) <= QueueMaxsize

\* C9: once the shutdown signal was handled, the dispatcher has left
\* between two events, no alert LED is lit and the buzzer is off.
C9_ShutdownSafe ==
    mainPc = "stopped" =>
        /\ dispPc = "idle"
        /\ leds.yellow = 0
        /\ leds.red = 0
        /\ ~buzzerOn

\* The level of every block of zeros is the floor, and with the calibration
\* offset it is below the noise threshold.
SilentBlocksAtFloor ==
    \A s \in Blocks :
        AllZero(s) =>
            /\ rms_db(s) = DbFloor
            /\ sample_audio_block([ok |-> TRUE, samples |-> s]) < SOUND_DB_THRESHOLD

\* C10: a block whose rms is <= 0 gets the floor as its level, which with the
\* calibration offset is strictly below the noise threshold, and a poll of
\* loop_sound that sampled such a block put no noise event.
C10_SilenceAtFloor ==
    /\ SilentBlocksAtFloor
    /\ DbFloor + CalibrationOffset < SOUND_DB_THRESHOLD
    /\ (IsPoll(heard) /\ heard.silent) =>
          /\ heard.db = DbFloor + CalibrationOffset
          /\ ~heard.fired

\* loop_sound polled a block of zeros and put nothing.
C10_Witness ==
    /\ IsPoll(heard) /\ heard.silent /\ ~heard.fired
    /\ heard.db = DbFloor + CalibrationOffset
    /\ cool = 0

\* C11: the noise event a poll of loop_sound puts has capture true exactly
\* when ir_sensor read 1 at that poll; when it read 0 the event is put all
\* the same, with capture false.
C11_NoiseCaptureFollowsPresence ==
    (IsPoll(heard) /\ heard.fired) =>
        /\ queue # << >>
        /\ queue[Len(queue)].type = "noise"
        /\ queue[Len(queue)].db = heard.db
        /\ queue[Len(queue)].capture = (heard.ir = 1)

\* A loud block was polled with nothing in front of the IR sensor, after one
\* polled with somebody there: two noise events, capture true then false.
C11_Witness ==
    /\ IsPoll(heard) /\ heard.fired /\ heard.ir = 0
    /\ Len(queue) = 2
    /\ queue[1].capture = TRUE
    /\ queue[2].capture = FALSE

\* C12: an iteration of loop_dht whose read failed (a None for the
\* temperature or the humidity, or an exception raised by the read) puts no
\* event, publishes nothing, and leaves the loop running for its next read.
C12_FailedClimateReadHarmless ==
    [][\A r \in DhtReads :
         (loop_dht(r) /\ ~(r.kind = "values" /\ r.t # None /\ r.h # None)) =>
           /\ queue' = queue
           /\ putCount' = putCount
           /\ published' = published
           /\ dhtPc' = "run"]_vars

\* C13: in every telemetry record handle_event hands to the publisher,
\* image_b64 is present only if image_has_face is present and true,
\* image_has_face only if image_saved is present, and image_saved only if
\* the event asked for a capture and the camera is enabled.
C13_ImageFieldsGated ==
    dispPc \in {"publish", "baseline"} =>
        /\ "image_b64" \in DOMAIN telemetry =>
              "image_has_face" \in DOMAIN telemetry /\ telemetry.image_has_face = TRUE
        /\ "image_has_face" \in DOMAIN telemetry => "image_saved" \in DOMAIN telemetry
        /\ "image_saved" \in DOMAIN telemetry =>
              /\ CAMERA_ENABLED
              /\ "capture" \in DOMAIN ev
              /\ ev.capture = TRUE

\* The record of a motion event in whose picture a face was found was handed
\* over, with the three image fields.
C13_Witness ==
    /\ dispPc = "baseline"
    /\ evSent = 1
    /\ ev.type = "motion"
    /\ "image_b64" \in DOMAIN telemetry
    /\ telemetry.image_has_face = TRUE

\* C14: a publish that fails inside publish_telemetry does not stop the
\* dispatcher: the call is counted, handle_event goes on to its last sleep,
\* from there it returns and the dispatcher is idle again, and the idle
\* dispatcher takes the next event as soon as the queue holds one.
C14_PublishFailureDoesNotStop ==
    /\ sinkFailed => (dispPc = "baseline" /\ evSent = 1 /\ handleCalls = handleDone + 1)
    /\ (dispPc = "baseline" /\ Alive) => ENABLED handle_baseline
    /\ (dispPc = "idle" /\ Alive /\ queue # << >>) => ENABLED dispatcher_get

\* The publish for an event failed, handle_event is in its last sleep, and
\* another event waits in the queue.
C14_Witness ==
    /\ sinkFailed
    /\ dispPc = "baseline"
    /\ Len(queue) >= 1
    /\ mainPc = "running"

\* C15: a step of a sensor loop changes nothing the loops share but the
\* queue, and the queue only by appending one event: it hands nothing to the
\* publisher and leaves the dispatcher's state, the LEDs and the buzzer
\* alone.
C15_ProducersTouchOnlyQueue ==
    [][/\ published' = published
       /\ UNCHANGED <<dispVars, actVars>>
       /\ \/ queue' = queue
          \/ /\ Len(queue') = Len(queue) + 1
             /\ SubSeq(queue', 1, Len(queue)) = queue]_vars

C17_HandlingOrder ==
    [][dispPc' # dispPc =>
         \/ /\ dispPc = "idle"
            /\ dispPc' = "feedback"
         \/ /\ dispPc = "feedback"
            /\ dispPc' = "beep"
            /\ leds'.yellow = 1
            /\ buzzerOn'
         \/ /\ dispPc = "beep"
            /\ ~buzzerOn'
            /\ dispPc' = IF CAMERA_ENABLED /\ "capture" \in DOMAIN ev /\ ev.capture
                         THEN "enrich" ELSE "publish"
         \/ /\ dispPc = "enrich"
            /\ dispPc' \in {"publish", "dead"}
            /\ evSent' = 0
         \/ /\ dispPc = "publish"
            /\ dispPc' = "baseline"
            /\ evSent' = 1
            /\ leds' = leds
         \/ /\ dispPc = "baseline"
            /\ dispPc' = "idle"
            /\ leds' = [green |-> 1, yellow |-> 0, red |-> 0]]_vars

\* A noise event with capture true went through the feedback, the capture
\* and the publish, and handle_event is in its last sleep.
C17_Witness ==
    /\ dispPc = "baseline"
    /\ ev.type = "noise"
    /\ "image_saved" \in DOMAIN telemetry
    /\ evSent = 1
    /\ handleCalls = handleDone + 1

\* C18: at most one event is got and not yet done with; while the dispatcher
\* is capturing or publishing, that event is the one it got last; and when a
\* further event is got, handle_event has returned for every event got
\* before.
C18_OneEventInFlight ==
    /\ popCount - handleDone \in {0, 1}
    /\ handleCalls - handleDone \in {0, 1}
    /\ handleCalls <= popCount
    /\ dispPc = "idle" => (popCount = handleDone /\ ev = NoEvent)
    /\ dispPc \in {"enrich", "publish"} =>
          /\ ev # NoEvent
          /\ ev.k = popCount
          /\ popCount = handleDone + 1
          /\ handleCalls = popCount

\* The second event is being published, the first is done with, and a third
\* waits in the queue.
C18_Witness ==
    /\ dispPc = "publish"
    /\ popCount = 2
    /\ handleDone = 1
    /\ Len(queue) = 1

\* C19: a poll of loop_sound whose audio acquisition raised got the value 0
\* from sample_audio_block, which is below the noise threshold; the poll put
\* no noise event and started no sleep, so the loop polls again at once.
C19_AudioFailureNotFatal ==
    /\ AudioErrorDb < SOUND_DB_THRESHOLD
    /\ (IsPoll(heard) /\ ~heard.ok) =>
          /\ heard.db = AudioErrorDb
          /\ ~heard.fired
          /\ cool = 0
          /\ ENABLED SoundPoll

\* The acquisition failed at a poll that followed a noise event: nothing was
\* put for it and the loop is polling.
C19_Witness ==
    /\ IsPoll(heard) /\ ~heard.ok /\ ~heard.fired
    /\ heard.db = AudioErrorDb
    /\ putCount = 1
    /\ cool = 0

\* C20: the events put are those still queued and those got, each once: the
\* number of puts is the length of the queue plus the number of gets, the
\* arrival numbers of the queued events and of the event in hand are
\* distinct and none exceeds the number of puts, and handle_event was called
\* at most once per get, so at most once per put.
C20_Conservation ==
    /\ putCount = Len(queue) + popCount
    /\ \A i \in 1..Len(queue) : queue[i].k \in (popCount + 1)..putCount
    /\ \A i \in 1..Len(queue) : \A j \in 1..Len(queue) : i # j => queue[i].k # queue[j].k
    /\ ev # NoEvent =>
          /\ ev.k \in 1..putCount
          /\ \A i \in 1..Len(queue) : queue[i].k # ev.k
    /\ handleCalls <= popCount
    /\ handleCalls <= putCount

\* Three events were put, two were got and handled, one is still queued.
C20_Witness ==
    /\ putCount = 3
    /\ popCount = 2
    /\ handleCalls = 2
    /\ Len(queue) = 1

====
